---- MODULE Spec2Model ----
\* Model of src/app.py, the Streamlit "Construction Project Manager Dashboard".
\* The script is re-executed top to bottom on every user interaction of a
\* session; each execution re-reads a table from Postgres with a full SELECT,
\* runs at most one button handler, and a save replaces the whole stored table
\* (to_sql with if_exists="replace").
\*
\* Spec follows one session on the timeline table, SpecTwo two sessions that
\* edit cells and save, SpecItems the "Items to Order" part of the runs of one
\* session whose timeline part neither raises nor saves.
\*
\* A cell is a record [k, s, n]: k is the kind ("null" for None/NaN/NaT, "str",
\* "int", "float"), s the text of a "str" cell as a sequence of one-character
\* strings, n the number of an "int"/"float" cell.  A frame (a DataFrame, or a
\* stored table) is [cols, rows]: a set of column names and a sequence of rows,
\* each a function from cols to cells.  Column order, fractional floats and
\* date values other than NaT are not represented.
EXTENDS Integers, Sequences, FiniteSets, TLC

\* ------------------------------------------------------------------ bounds
MaxRows == 2        \* most rows a stored table or a grid holds
MaxEdits == 1       \* most pending (unsaved) edits in one session's editor
MaxWrites == 1      \* most successful writes of the stored table by one session

Sessions == {"A", "B"}

\* ------------------------------------------------------------------- cells
Null == [k |-> "null", s |-> <<>>, n |-> 0]
Str(t) == [k |-> "str", s |-> t, n |-> 0]
Int_(i) == [k |-> "int", s |-> <<>>, n |-> i]
Float_(i) == [k |-> "float", s |-> <<>>, n |-> i]

IsNa(c) == c.k = "null"

Digits == <<"0", "1", "2", "3", "4", "5", "6", "7", "8", "9">>
UpperCase == <<"A", "B", "C", "D", "E", "F", "G", "H", "I", "J", "K", "L", "M",
               "N", "O", "P", "Q", "R", "S", "T", "U", "V", "W", "X", "Y", "Z">>
LowerCase == <<"a", "b", "c", "d", "e", "f", "g", "h", "i", "j", "k", "l", "m",
               "n", "o", "p", "q", "r", "s", "t", "u", "v", "w", "x", "y", "z">>

IsDigitChar(ch) == \E i \in DOMAIN Digits : Digits[i] = ch
DigitVal(ch) == (CHOOSE i \in DOMAIN Digits : Digits[i] = ch) - 1

\* str.isdigit(): non-empty and every character a digit
isdigit(t) == Len(t) > 0 /\ \A i \in DOMAIN t : IsDigitChar(t[i])

RECURSIVE DigitsToInt(_)
DigitsToInt(t) ==
  IF t = <<>> THEN 0
  ELSE 10 * DigitsToInt(SubSeq(t, 1, Len(t) - 1)) + DigitVal(t[Len(t)])

\* int(s) for a string that passed isdigit()
int(t) == DigitsToInt(t)

RECURSIVE NatToText(_)
NatToText(i) ==
  IF i < 10 THEN <<Digits[i + 1]>>
  ELSE NatToText(i \div 10) \o <<Digits[(i % 10) + 1]>>

IntToText(i) == IF i < 0 THEN <<"-">> \o NatToText(0 - i) ELSE NatToText(i)

LowerChar(ch) ==
  IF \E i \in DOMAIN UpperCase : UpperCase[i] = ch
  THEN LowerCase[CHOOSE i \in DOMAIN UpperCase : UpperCase[i] = ch]
  ELSE ch

\* str.lower()
lower(t) == [i \in DOMAIN t |-> LowerChar(t[i])]

\* Series.astype(str) on one cell: str(None) is "None", str(5) is "5"
astype_str(c) ==
  CASE c.k = "null" -> Str(<<"N", "o", "n", "e">>)
    [] c.k = "str" -> c
    [] c.k = "int" -> Str(IntToText(c.n))
    [] c.k = "float" -> Str(IntToText(c.n) \o <<".", "0">>)

\* Series.fillna(d) on one cell
fillna(c, d) == IF IsNa(c) THEN d ELSE c

\* pd.to_numeric(errors="coerce") on one cell: a number stays, a text of an
\* optional "-" and digits parses, anything else becomes NaN
to_numeric(c) ==
  CASE c.k = "int" -> c
    [] c.k = "float" -> c
    [] c.k = "null" -> Null
    [] c.k = "str" ->
         IF isdigit(c.s) THEN Int_(int(c.s))
         ELSE IF Len(c.s) > 1 /\ c.s[1] = "-" /\ isdigit(Tail(c.s))
              THEN Int_(0 - int(Tail(c.s)))
              ELSE Null

\* Series.astype(int) on one cell without NaN
astype_int(c) == Int_(c.n)

\* pd.to_numeric(col, errors="coerce").fillna(0).astype(int) on one cell
QuantityCoerce(c) == astype_int(fillna(to_numeric(c), Int_(0)))

\* ------------------------------------------------------------------ frames
Frame(cols, rows) == [cols |-> cols, rows |-> rows]

\* df[c]: the cells of column c, one per row
Column(g, c) == [i \in DOMAIN g.rows |-> g.rows[i][c]]

\* df[c] = vals: column c set (created when absent) to one cell per row
SetCol(g, c, vals) ==
  Frame(g.cols \cup {c},
        [i \in DOMAIN g.rows |->
           [d \in g.cols \cup {c} |-> IF d = c THEN vals[i] ELSE g.rows[i][d]]])

\* DataFrame.drop(columns=[c])
DropCol(g, c) ==
  Frame(g.cols \ {c},
        [i \in DOMAIN g.rows |-> [d \in g.cols \ {c} |-> g.rows[i][d]]])

\* variant of DropRow that always drops the first row
DropRow_first(g, idx) == Frame(g.cols, Tail(g.rows))

\* DataFrame.drop(df.index[idx]) for a 0-based position idx
DropRow(g, idx) ==
  Frame(g.cols,
        [i \in 1..(Len(g.rows) - 1) |->
           IF i <= idx THEN g.rows[i] ELSE g.rows[i + 1]])

\* DataFrame.rename(columns=m)
Rename(g, m) ==
  LET new(c) == IF c \in DOMAIN m THEN m[c] ELSE c
      cols2 == {new(c) : c \in g.cols}
  IN Frame(cols2,
           [i \in DOMAIN g.rows |->
              [d \in cols2 |-> g.rows[i][CHOOSE c \in g.cols : new(c) = d]]])

\* ------------------------------------------------- program text constants
Finished == <<"F", "i", "n", "i", "s", "h", "e", "d">>
InProgress == <<"I", "n", " ", "P", "r", "o", "g", "r", "e", "s", "s">>
NotStarted == <<"N", "o", "t", " ", "S", "t", "a", "r", "t", "e", "d">>
Delayed == <<"D", "e", "l", "a", "y", "e", "d">>
FinishedLower == <<"f", "i", "n", "i", "s", "h", "e", "d">>

\* options of the Status SelectboxColumn
StatusOptions == {Finished, InProgress, NotStarted, Delayed}

\* storage name -> display label of the timeline table
TimelineMapping ==
  [c \in {"activity", "item", "task", "room", "location", "notes",
          "start_date", "end_date", "status", "workdays", "progress"} |->
     CASE c = "activity" -> "Activity"
       [] c = "item" -> "Item"
       [] c = "task" -> "Task"
       [] c = "room" -> "Room"
       [] c = "location" -> "Location"
       [] c = "notes" -> "Notes"
       [] c = "start_date" -> "Start Date"
       [] c = "end_date" -> "End Date"
       [] c = "status" -> "Status"
       [] c = "workdays" -> "Workdays"
       [] c = "progress" -> "Progress"]

\* df["Status"].astype(str).fillna("Not Started") on one cell
StatusCell(c) == fillna(astype_str(c), Str(NotStarted))

\* the same on a whole column
StatusSeries(col) == [i \in DOMAIN col |-> StatusCell(col[i])]

\* ------------------------------------------------------- timeline loader
\* df["Status"] raises KeyError when the renamed frame has no Status column
LoadTimelineRaises(t) == "Status" \notin Rename(t, TimelineMapping).cols

load_timeline_data(t) ==
  LET df == Rename(t, TimelineMapping)
  IN SetCol(df, "Status", StatusSeries(Column(df, "Status")))

\* ---------------------------------------------------------- items loader
\* storage name -> display label of the items table
ItemsMapping ==
  [c \in {"item", "quantity", "order_status", "delivery_status", "notes"} |->
     CASE c = "item" -> "Item"
       [] c = "quantity" -> "Quantity"
       [] c = "order_status" -> "Order Status"
       [] c = "delivery_status" -> "Delivery Status"
       [] c = "notes" -> "Notes"]

ItemsColumns == {"Item", "Quantity", "Order Status", "Delivery Status", "Notes"}

\* lines 67-71 and 220-224: the per-column coercions of the items grid
ItemsCoerce(g) ==
  Frame(g.cols,
        [i \in DOMAIN g.rows |->
           [c \in g.cols |->
              CASE c = "Quantity" -> QuantityCoerce(g.rows[i][c])
                [] c \in {"Item", "Order Status", "Delivery Status", "Notes"} ->
                     astype_str(g.rows[i][c])
                [] OTHER -> g.rows[i][c]]])

\* lines 67-71 index the five columns: a missing one raises KeyError
LoadItemsRaises(t) == ~(ItemsColumns \subseteq Rename(t, ItemsMapping).cols)

load_items_data(t) == ItemsCoerce(Rename(t, ItemsMapping))

\* lines 217-219: a needed column the grid lacks is created, filled with ""
ItemsBackfill(g) ==
  LET cols == g.cols \cup ItemsColumns
  IN Frame(cols,
           [i \in DOMAIN g.rows |->
              [c \in cols |-> IF c \in g.cols THEN g.rows[i][c] ELSE Str(<<>>)]])

\* lines 216-224: df_items as the editor receives it
ItemsGrid(t) == ItemsCoerce(ItemsBackfill(load_items_data(t)))

\* line 244: the Quantity coercion of "Save Items Table"
SaveItemsCoerce(g) ==
  SetCol(g, "Quantity",
         [i \in DOMAIN g.rows |-> QuantityCoerce(g.rows[i]["Quantity"])])

\* ------------------------------------------------------------------- save
\* variant of to_sql with if_exists="append": the old rows stay, the new rows
\* follow, a column one side lacks is NULL there
to_sql_append(old, df) ==
  LET cols == old.cols \cup df.cols
      pad(g) == [i \in DOMAIN g.rows |->
                   [c \in cols |-> IF c \in g.cols THEN g.rows[i][c] ELSE Null]]
  IN Frame(cols, pad(old) \o pad(df))

\* DataFrame.to_sql(name, conn, if_exists="replace", index=False): the new
\* content of a stored table that held old
to_sql(old, df) == df

\* variant of save_timeline_data that reruns whether or not the write raised
save_timeline_data_always_rerun(old, df, ok) ==
  [db |-> IF ok THEN to_sql(old, df) ELSE old, raised |-> ~ok,
   msg |-> IF ok THEN "Timeline data successfully saved!" ELSE "", rerun |-> TRUE]

\* save_timeline_data(df), lines 77-83, when the write succeeds (ok) or
\* raises: the stored table afterwards, whether the exception leaves the
\* function, the st.success message, and whether st.experimental_rerun() is
\* reached (its RerunException is not an Exception, so no handler of the
\* callers catches it)
save_timeline_data(old, df, ok) ==
  IF ok
  THEN [db |-> to_sql(old, df), raised |-> FALSE,
        msg |-> "Timeline data successfully saved!", rerun |-> TRUE]
  ELSE [db |-> old, raised |-> TRUE, msg |-> "", rerun |-> FALSE]

\* save_items_data(df), lines 85-90, in the same terms
save_items_data(old, df, ok) ==
  IF ok
  THEN [db |-> to_sql(old, df), raised |-> FALSE,
        msg |-> "Items table successfully saved!", rerun |-> TRUE]
  ELSE [db |-> old, raised |-> TRUE, msg |-> "", rerun |-> FALSE]

\* ------------------------------------------------- sidebar button handlers
NoClick == [button |-> "None", delete_index |-> <<>>, new_col_name |-> "",
            new_col_type |-> "string", col_to_delete |-> ""]

ColumnTypes == {"string", "integer", "float", "datetime"}

\* the value "Add Column (Main)" fills a new column with
NewColumnCell(type) ==
  CASE type = "string" -> Str(<<>>)
    [] type = "integer" -> Int_(0)
    [] type = "float" -> Float_(0)
    [] type = "datetime" -> Null

\* variant of DeleteRowMain without the upper range check
DeleteRowMain_no_upper(df_main, delete_index) ==
  IF isdigit(delete_index)
  THEN [save |-> TRUE, grid |-> DropRow(df_main, int(delete_index)), msg |-> ""]
  ELSE [save |-> FALSE, grid |-> df_main,
        msg |-> "Please enter a valid integer index."]

\* Each handler yields [save, grid, msg]: whether it calls
\* save_timeline_data, df_main after the handler, the message it reports.
DeleteRowMain(df_main, delete_index) ==
  IF isdigit(delete_index)
  THEN LET idx == int(delete_index)
       IN IF 0 <= idx /\ idx < Len(df_main.rows)
          THEN [save |-> TRUE, grid |-> DropRow(df_main, idx), msg |-> ""]
          ELSE [save |-> FALSE, grid |-> df_main, msg |-> "Invalid index."]
  ELSE [save |-> FALSE, grid |-> df_main,
        msg |-> "Please enter a valid integer index."]

AddColumnMain(df_main, new_col_name, new_col_type) ==
  IF new_col_name # "" /\ new_col_name \notin df_main.cols
  THEN LET fill == [i \in DOMAIN df_main.rows |-> NewColumnCell(new_col_type)]
       IN [save |-> TRUE, grid |-> SetCol(df_main, new_col_name, fill), msg |-> ""]
  ELSE [save |-> FALSE, grid |-> df_main,
        msg |-> "Column already exists or invalid name."]

DeleteColumnMain(df_main, col_to_delete) ==
  IF col_to_delete # "" /\ col_to_delete \in df_main.cols
  THEN [save |-> TRUE, grid |-> DropCol(df_main, col_to_delete), msg |-> ""]
  ELSE [save |-> FALSE, grid |-> df_main, msg |-> "Please select a valid column."]

Sidebar(df_main, c) ==
  CASE c.button = "DeleteRow" -> DeleteRowMain(df_main, c.delete_index)
    [] c.button = "AddColumn" -> AddColumnMain(df_main, c.new_col_name, c.new_col_type)
    [] c.button = "DeleteColumn" -> DeleteColumnMain(df_main, c.col_to_delete)
    [] OTHER -> [save |-> FALSE, grid |-> df_main, msg |-> ""]

\* ------------------------------------------------------------ data editor
\* The editor's pending edits (the widget state kept under its key):
\* cells maps <<0-based row position, column>> to the value typed in, added
\* counts appended rows, deleted is the set of removed row positions.
NoEdits == [cells |-> <<>>, added |-> 0, deleted |-> {}]

EditCount(e) == Cardinality(DOMAIN e.cells) + e.added + Cardinality(e.deleted)

RECURSIVE Pick(_, _, _)
Pick(rows, keepSet, i) ==
  IF i > Len(rows) THEN <<>>
  ELSE (IF i \in keepSet THEN <<rows[i]>> ELSE <<>>) \o Pick(rows, keepSet, i + 1)

\* variant of data_editor that returns the frame it was handed, unedited
data_editor_unedited(df, e) == df

\* st.data_editor(df, num_rows="dynamic") with pending edits e: cell edits,
\* then appended rows (every cell None), then row deletions
data_editor(df, e) ==
  LET cell(i, c) == IF <<i - 1, c>> \in DOMAIN e.cells
                    THEN e.cells[<<i - 1, c>>] ELSE df.rows[i][c]
      edited == [i \in DOMAIN df.rows |-> [c \in df.cols |-> cell(i, c)]]
      blank == [c \in df.cols |-> Null]
      all == edited \o [i \in 1..e.added |-> blank]
      keepSet == {i \in DOMAIN all : (i - 1) \notin e.deleted}
  IN Frame(df.cols, Pick(all, keepSet, 1))

\* lines 200-201: Status coercion of the edited grid
StatusCoerce(g) ==
  IF "Status" \in g.cols
  THEN SetCol(g, "Status", StatusSeries(Column(g, "Status")))
  ELSE g

IsFinished(r) == r["Status"].k = "str" /\ lower(r["Status"].s) = FinishedLower

\* line 204: .loc[Status.str.lower() == "finished", "Progress"] = 100
\* (a missing Progress column is created, NaN in the other rows)
FinishedRule(g) ==
  LET force(r) == IF IsFinished(r) THEN Int_(100)
                  ELSE IF "Progress" \in g.cols THEN r["Progress"] ELSE Null
  IN SetCol(g, "Progress", [i \in DOMAIN g.rows |-> force(g.rows[i])])

\* ------------------------------------------------------------------ state
VARIABLES
  db,       \* the stored "Contrcution_Timeline" table
  pc,       \* per session: "rerun" (a run is due), "run" (df_main loaded,
            \* rest of the script pending), "idle" (run finished, page shown),
            \* "error" (run aborted by an uncaught exception)
  click,    \* per session: the button and widget inputs of the current run
            \* (after the run: the button alone)
  df,       \* per session: df_main as load_timeline_data returned it
  stale,    \* per session, during a run: df_main differs from the frame of
            \* the previous run, the one the pending edits were entered against
  edits,    \* per session: pending edits of the "timeline_data_editor" widget
  msg,      \* per session: message the current run has reported so far
  writes,   \* per session: number of its successful writes so far
  shown,    \* per session, during a run a button started: the edited grid
            \* the page showed when the button was pressed
  db_items,     \* the stored "Items_Order" table
  pc_items,     \* "rerun" (a run is due), "idle" (page shown), "error"
  df_items,     \* df_items as lines 216-224 left it in the last run
  edits_items,  \* pending edits of the "items_data_editor" widget
  msg_items     \* message the items part of the last run reported

timeline_vars == <<db, pc, click, df, stale, edits, msg, writes, shown>>
items_vars == <<db_items, pc_items, df_items, edits_items, msg_items>>
vars == <<timeline_vars, items_vars>>

EmptyFrame == Frame({}, <<>>)

\* Stored tables a behaviour starts from: storage (snake_case) column names,
\* two rows, Progress 50; among the Status values a finished row that is not
\* at 100, a NULL and a lower-case spelling.
InitRow(status) == [c \in {"status", "progress"} |->
                      IF c = "status" THEN status ELSE Int_(50)]

InitTables ==
  {Frame({"status", "progress"}, <<InitRow(r[1]), InitRow(r[2])>>) : r \in
     {<<Str(Finished), Null>>, <<Null, Str(FinishedLower)>>,
      <<Str(FinishedLower), Str(InProgress)>>, <<Str(InProgress), Str(Finished)>>}}

\* Stored items tables a behaviour starts from: one row, storage column
\* names; the quantity is a number, a text or NULL.  Two tables lack a column.
Text_abc == <<"a", "b", "c">>

InitQuantities ==
  {Int_(5), Int_(0), Int_(0 - 2), Float_(4), Null, Str(<<>>), Str(Text_abc),
   Str(<<"7">>), Str(<<"-", "3">>)}

InitItemsRow(q) ==
  [c \in DOMAIN ItemsMapping |->
     CASE c = "quantity" -> q
       [] c = "item" -> Str(<<"n", "a", "i", "l">>)
       [] c = "order_status" -> Null
       [] OTHER -> Str(<<>>)]

InitItemsTables ==
  {Frame(DOMAIN ItemsMapping, <<InitItemsRow(q)>>) : q \in InitQuantities}
  \cup {DropCol(Frame(DOMAIN ItemsMapping, <<InitItemsRow(Int_(5))>>), c)
         : c \in {"quantity", "notes"}}

TimelineStart ==
  /\ pc = [s \in Sessions |-> "rerun"]
  /\ click = [s \in Sessions |-> NoClick]
  /\ df = [s \in Sessions |-> EmptyFrame]
  /\ stale = [s \in Sessions |-> FALSE]
  /\ edits = [s \in Sessions |-> NoEdits]
  /\ msg = [s \in Sessions |-> ""]
  /\ writes = [s \in Sessions |-> 0]
  /\ shown = [s \in Sessions |-> EmptyFrame]

ItemsStart ==
  /\ pc_items = "rerun"
  /\ df_items = EmptyFrame
  /\ edits_items = NoEdits
  /\ msg_items = ""

Init ==
  /\ db \in InitTables
  /\ TimelineStart
  /\ db_items = Frame(DOMAIN ItemsMapping, <<InitItemsRow(Int_(5))>>)
  /\ ItemsStart

InitItems ==
  /\ db = Frame({"status", "progress"}, <<InitRow(Str(InProgress))>>)
  /\ TimelineStart
  /\ db_items \in InitItemsTables
  /\ ItemsStart

\* ---------------------------------------------------------------- actions
\* line 109: df_main = load_timeline_data(); an uncaught KeyError ends the run
LoadMain(s) ==
  IF LoadTimelineRaises(db)
  THEN /\ pc' = [pc EXCEPT ![s] = "error"]
       /\ df' = [df EXCEPT ![s] = EmptyFrame]
       /\ stale' = [stale EXCEPT ![s] = FALSE]
       /\ edits' = [edits EXCEPT ![s] = NoEdits]
       /\ msg' = [msg EXCEPT ![s] = "KeyError: 'Status'"]
  ELSE /\ pc' = [pc EXCEPT ![s] = "run"]
       /\ df' = [df EXCEPT ![s] = load_timeline_data(db)]
       /\ stale' = [stale EXCEPT ![s] = (load_timeline_data(db) # df[s])]
       /\ msg' = [msg EXCEPT ![s] = ""]
       /\ UNCHANGED edits

\* a run started by st.experimental_rerun() or by the first page load
Rerun(s) ==
  /\ pc[s] = "rerun"
  /\ click' = [click EXCEPT ![s] = NoClick]
  /\ LoadMain(s)
  /\ UNCHANGED <<db, writes, shown>>
  /\ UNCHANGED items_vars

DeleteIndexInputs == {<<>>, <<"0">>, <<"1">>, <<"9">>, <<"-", "1">>}
NewColNameInputs == {"", "Extra", "Status"}

\* what a user can submit from the page that shows frame g
Clicks(g) ==
  {[NoClick EXCEPT !.button = "DeleteRow", !.delete_index = t] : t \in DeleteIndexInputs}
  \cup {[NoClick EXCEPT !.button = "AddColumn", !.new_col_name = "Extra", !.new_col_type = ty]
        : ty \in ColumnTypes}
  \cup {[NoClick EXCEPT !.button = "AddColumn", !.new_col_name = nm]
        : nm \in NewColNameInputs}
  \cup {[NoClick EXCEPT !.button = "DeleteColumn", !.col_to_delete = c]
        : c \in {""} \cup g.cols}
  \cup {[NoClick EXCEPT !.button = "Save"]}

\* a button press on the rendered page starts a run: line 103 reruns at once
\* for "Refresh Data", every other button is read after the load of line 109
PressWith(s, c) ==
  /\ pc[s] = "idle"
  /\ click' = [click EXCEPT ![s] = c]
  /\ shown' = [shown EXCEPT ![s] = StatusCoerce(data_editor(df[s], edits[s]))]
  /\ LoadMain(s)
  /\ UNCHANGED <<db, writes>>
  /\ UNCHANGED items_vars

Press(s) == \E c \in Clicks(df[s]) : PressWith(s, c)

PressSave(s) == PressWith(s, [NoClick EXCEPT !.button = "Save"])

\* "Refresh Data" is drawn before the load, so it is there after an error too
Refresh(s) ==
  /\ pc[s] \in {"idle", "error"}
  /\ click' = [click EXCEPT ![s] = [NoClick EXCEPT !.button = "Refresh"]]
  /\ pc' = [pc EXCEPT ![s] = "rerun"]
  /\ UNCHANGED <<db, df, stale, edits, msg, writes, shown>>
  /\ UNCHANGED items_vars

EditValues(c) ==
  IF c = "Status" THEN {Str(t) : t \in StatusOptions \cap {Finished}}
  ELSE {}

\* an edit in the grid changes the widget state and reruns the script
EditCell(s) ==
  /\ pc[s] = "idle"
  /\ \E i \in 0..(Len(df[s].rows) - 1), c \in df[s].cols \cap {"Status", "Progress"} :
       \E v \in EditValues(c) :
         LET e == [edits[s] EXCEPT !.cells = (<<i, c>> :> v) @@ @]
         IN /\ EditCount(e) <= MaxEdits
            /\ e # edits[s]
            /\ edits' = [edits EXCEPT ![s] = e]
  /\ pc' = [pc EXCEPT ![s] = "rerun"]
  /\ UNCHANGED <<db, click, df, stale, msg, writes, shown>>
  /\ UNCHANGED items_vars

AddRow(s) ==
  /\ pc[s] = "idle"
  /\ EditCount(edits[s]) < MaxEdits
  /\ Len(data_editor(df[s], edits[s]).rows) < MaxRows
  /\ edits' = [edits EXCEPT ![s].added = @ + 1]
  /\ pc' = [pc EXCEPT ![s] = "rerun"]
  /\ UNCHANGED <<db, click, df, stale, msg, writes, shown>>
  /\ UNCHANGED items_vars

RemoveRow(s) ==
  /\ pc[s] = "idle"
  /\ EditCount(edits[s]) < MaxEdits
  /\ \E i \in 0..(Len(df[s].rows) - 1) :
       /\ i \notin edits[s].deleted
       /\ edits' = [edits EXCEPT ![s].deleted = @ \cup {i}]
  /\ pc' = [pc EXCEPT ![s] = "rerun"]
  /\ UNCHANGED <<db, click, df, stale, msg, writes, shown>>
  /\ UNCHANGED items_vars

\* The editor state that survives when the editor is handed frame g: kept when
\* g is the frame the edits were entered against; when g differs (a changed
\* load, or df_main changed in place by a handler whose save failed) the
\* widget either keeps its state or starts afresh (its identity is the
\* framework's).
EditorStates(s, g) ==
  IF ~stale[s] /\ g = df[s] THEN {edits[s]}
  ELSE {e \in {edits[s], NoEdits} : Len(data_editor(g, e).rows) <= MaxRows}

\* lines 113-208: the rest of the run after the load.  A handler that saves
\* hands df_main to save_timeline_data; when that raises, the handler reports
\* the error and the script goes on to draw the editor.
Finish(s) ==
  /\ pc[s] = "run"
  /\ LET sb == Sidebar(df[s], click[s])
     IN \E ok \in {b \in BOOLEAN : b => writes[s] < MaxWrites} :
          LET sv == save_timeline_data(db, sb.grid, ok)
          IN IF sb.save /\ sv.rerun
             THEN /\ db' = sv.db
                  /\ writes' = [writes EXCEPT ![s] = IF ok THEN @ + 1 ELSE @]
                  /\ msg' = [msg EXCEPT ![s] = sv.msg]
                  /\ pc' = [pc EXCEPT ![s] = "rerun"]
                  /\ UNCHANGED edits
             ELSE \E e \in EditorStates(s, sb.grid) :
                    LET edited_df_main == StatusCoerce(data_editor(sb.grid, e))
                        m == IF sb.save THEN "Error saving data" ELSE sb.msg
                        sv2 == save_timeline_data(db, FinishedRule(edited_df_main), ok)
                    IN /\ edits' = [edits EXCEPT ![s] = e]
                       /\ IF click[s].button # "Save"
                          THEN /\ pc' = [pc EXCEPT ![s] = "idle"]
                               /\ msg' = [msg EXCEPT ![s] = m]
                               /\ UNCHANGED <<db, writes>>
                          ELSE IF "Status" \notin edited_df_main.cols
                          THEN \* line 204 raises KeyError outside the try
                               /\ pc' = [pc EXCEPT ![s] = "error"]
                               /\ msg' = [msg EXCEPT ![s] = "KeyError: 'Status'"]
                               /\ UNCHANGED <<db, writes>>
                          ELSE /\ db' = sv2.db
                               /\ writes' = [writes EXCEPT ![s] = IF ok THEN @ + 1 ELSE @]
                               /\ msg' = [msg EXCEPT ![s] =
                                           IF sv2.raised THEN "Error saving main timeline"
                                           ELSE sv2.msg]
                               /\ pc' = [pc EXCEPT ![s] =
                                          IF sv2.rerun THEN "rerun" ELSE "idle"]
  /\ click' = [click EXCEPT ![s] = [NoClick EXCEPT !.button = click[s].button]]
  /\ stale' = [stale EXCEPT ![s] = FALSE]
  /\ shown' = [shown EXCEPT ![s] = EmptyFrame]
  /\ UNCHANGED df
  /\ UNCHANGED items_vars

Next ==
  \E s \in {"A"} :
    \/ Rerun(s)
    \/ Press(s)
    \/ Refresh(s)
    \/ EditCell(s)
    \/ AddRow(s)
    \/ RemoveRow(s)
    \/ Finish(s)

Spec == Init /\ [][Next]_vars

\* Two sessions on the same stored table, each editing cells and saving.
NextTwo ==
  \E s \in Sessions :
    \/ Rerun(s)
    \/ EditCell(s)
    \/ PressSave(s)
    \/ Finish(s)

SpecTwo == Init /\ [][NextTwo]_vars

\* ------------------------------------------------- items part of a run
\* lines 215-224 of a run: an uncaught KeyError of the loader ends it; the
\* editor keeps its pending edits when it is handed the frame they were
\* entered against, and keeps or drops them when the frame differs
LoadItems ==
  /\ pc_items = "rerun"
  /\ IF LoadItemsRaises(db_items)
     THEN /\ pc_items' = "error"
          /\ df_items' = EmptyFrame
          /\ edits_items' = NoEdits
          /\ msg_items' = "KeyError"
     ELSE LET g == ItemsGrid(db_items)
          IN /\ pc_items' = "idle"
             /\ df_items' = g
             /\ \E e \in (IF g = df_items THEN {edits_items}
                          ELSE {x \in {edits_items, NoEdits} :
                                  Len(data_editor(g, x).rows) <= MaxRows}) :
                  edits_items' = e
             /\ UNCHANGED msg_items
  /\ UNCHANGED db_items
  /\ UNCHANGED timeline_vars

\* the Quantity NumberColumn has min_value=0: a cell takes a number from 0 up,
\* or is cleared
QuantityEdits == {Int_(3), Null}

\* An edit reruns the script; the stored table is as it was, so lines 215-224
\* yield the same df_items.
EditQuantity ==
  /\ pc_items = "idle"
  /\ \E i \in 0..(Len(df_items.rows) - 1), v \in QuantityEdits :
       LET e == [edits_items EXCEPT !.cells = (<<i, "Quantity">> :> v) @@ @]
       IN /\ EditCount(e) <= MaxEdits
          /\ e # edits_items
          /\ edits_items' = e
  /\ df_items' = ItemsGrid(db_items)
  /\ msg_items' = ""
  /\ UNCHANGED <<db_items, pc_items>>
  /\ UNCHANGED timeline_vars

AddItemRow ==
  /\ pc_items = "idle"
  /\ EditCount(edits_items) < MaxEdits
  /\ Len(data_editor(df_items, edits_items).rows) < MaxRows
  /\ edits_items' = [edits_items EXCEPT !.added = @ + 1]
  /\ df_items' = ItemsGrid(db_items)
  /\ msg_items' = ""
  /\ UNCHANGED <<db_items, pc_items>>
  /\ UNCHANGED timeline_vars

\* lines 242-247: "Save Items Table"
SaveItems ==
  /\ pc_items = "idle"
  /\ \E ok \in BOOLEAN :
       LET edited_df_items == data_editor(ItemsGrid(db_items), edits_items)
           sv == save_items_data(db_items, SaveItemsCoerce(edited_df_items), ok)
       IN /\ db_items' = sv.db
          /\ msg_items' = IF sv.raised THEN "Error saving items table" ELSE sv.msg
          /\ pc_items' = IF sv.rerun THEN "rerun" ELSE "idle"
  /\ UNCHANGED <<df_items, edits_items>>
  /\ UNCHANGED timeline_vars

NextItems ==
  \/ LoadItems
  \/ EditQuantity
  \/ AddItemRow
  \/ SaveItems

SpecItems == InitItems /\ [][NextItems]_vars

TypeOK == \A s \in Sessions : pc[s] \in {"rerun", "run", "idle", "error"}

\* ================================================================ claims
\* Vocabulary of the claims, stated without the operators of the model.

\* t spells "finished" in some mix of upper and lower case
SpellsFinished(t) ==
  Len(t) = Len(FinishedLower) /\ \A i \in DOMAIN t : LowerChar(t[i]) = FinishedLower[i]

RowIsFinished(g, r) ==
  "Status" \in g.cols /\ r["Status"].k = "str" /\ SpellsFinished(r["Status"].s)

RowIsAt100(g, r) ==
  "Progress" \in g.cols /\ r["Progress"].k \in {"int", "float"} /\ r["Progress"].n = 100

\* session s ends a run by a successful write
SaveSucceeds(s) ==
  pc[s] = "run" /\ pc'[s] # "run" /\ msg'[s] = "Timeline data successfully saved!"

StructuralButtons == {"DeleteRow", "AddColumn", "DeleteColumn"}

\* the zero value of a column kind
KindDefault(type) ==
  CASE type = "string" -> Str(<<>>)
    [] type = "integer" -> Int_(0)
    [] type = "float" -> Float_(0)
    [] type = "datetime" -> Null

\* frame after is frame before with the one change of command c applied
CommandResult(before, c, after) ==
  CASE c.button = "DeleteRow" ->
         /\ after.cols = before.cols
         /\ Len(after.rows) = Len(before.rows) - 1
         /\ \A j \in DOMAIN after.rows :
              after.rows[j] = before.rows[IF j <= int(c.delete_index) THEN j ELSE j + 1]
    [] c.button = "AddColumn" ->
         /\ after.cols = before.cols \cup {c.new_col_name}
         /\ Len(after.rows) = Len(before.rows)
         /\ \A j \in DOMAIN after.rows :
              /\ after.rows[j][c.new_col_name] = KindDefault(c.new_col_type)
              /\ \A d \in before.cols : after.rows[j][d] = before.rows[j][d]
    [] c.button = "DeleteColumn" ->
         /\ after.cols = before.cols \ {c.col_to_delete}
         /\ Len(after.rows) = Len(before.rows)
         /\ \A j \in DOMAIN after.rows :
              \A d \in after.cols : after.rows[j][d] = before.rows[j][d]
    [] OTHER -> after = before

\* C1: whenever the timeline table has been saved, by the Save button or by a
\* save of delete-row, add-column or delete-column, every stored row whose
\* Status spells "finished" (any case) has Progress = 100.
C1_SavedFinishedIs100 ==
  [][\A s \in Sessions :
       SaveSucceeds(s) =>
         \A i \in DOMAIN db'.rows :
           RowIsFinished(db', db'.rows[i]) => RowIsAt100(db', db'.rows[i])]_vars

\* the grid a saving run of session s hands to save_timeline_data
SavedGrid(s) ==
  IF Sidebar(df[s], click[s]).save
  THEN Sidebar(df[s], click[s]).grid
  ELSE FinishedRule(StatusCoerce(data_editor(df[s], edits'[s])))

\* C2: after a successful save the stored table has exactly the columns and
\* exactly the rows of the grid that was saved; nothing of the table stored
\* before survives unless it is in that grid.
C2_StoredIsSavedGrid ==
  [][\A s \in Sessions :
       SaveSucceeds(s) =>
         /\ db'.cols = SavedGrid(s).cols
         /\ db'.rows = SavedGrid(s).rows]_vars

\* a save replaced a table that had storage column names and MaxRows rows by
\* a shorter grid with display names
W_C2 ==
  /\ pc["A"] = "rerun"
  /\ msg["A"] = "Timeline data successfully saved!"
  /\ "status" \notin db.cols
  /\ Len(db.rows) < MaxRows

\* C3: round trip: a saved grid loads again without raising, with the same
\* row count, the same column set and equal cells in the typed columns.
C3_RoundTrip ==
  [][\A s \in Sessions :
       SaveSucceeds(s) =>
         /\ ~LoadTimelineRaises(db')
         /\ LET g == load_timeline_data(db')
            IN /\ g.cols = db'.cols
               /\ Len(g.rows) = Len(db'.rows)
               /\ \A i \in DOMAIN db'.rows :
                    \A c \in db'.cols \cap {"Status", "Progress"} :
                      g.rows[i][c] = db'.rows[i][c]]_vars

ValidationMessages ==
  {"Invalid index.", "Please enter a valid integer index.",
   "Column already exists or invalid name.", "Please select a valid column."}

\* command c fails local validation on frame g
InvalidCommand(g, c) ==
  \/ /\ c.button = "DeleteRow"
     /\ ~\E k \in 0..(Len(g.rows) - 1) : c.delete_index = IntToText(k)
  \/ /\ c.button = "AddColumn"
     /\ (c.new_col_name = "" \/ c.new_col_name \in g.cols)
  \/ /\ c.button = "DeleteColumn"
     /\ (c.col_to_delete = "" \/ c.col_to_delete \notin g.cols)

\* C4: a command that fails local validation reports an error or warning,
\* leaves df_main and the pending edits as they were, and saves nothing.
C4_InvalidIsNoOp ==
  [][\A s \in Sessions :
       (pc[s] = "run" /\ pc'[s] # "run" /\ InvalidCommand(df[s], click[s])) =>
         /\ pc'[s] = "idle"
         /\ msg'[s] \in ValidationMessages
         /\ Sidebar(df[s], click[s]).grid = df[s]
         /\ df'[s] = df[s]
         /\ (~stale[s] => edits'[s] = edits[s])
         /\ db' = db]_vars

\* an out-of-range delete-row was reported while an edit was pending
W_C4 ==
  /\ pc["A"] = "idle"
  /\ click["A"].button = "DeleteRow"
  /\ msg["A"] = "Invalid index."
  /\ edits["A"] # NoEdits

\* t is the text of a whole number, with or without a sign
IsNumberText(t) ==
  \E body \in {t, IF t # <<>> /\ t[1] = "-" THEN Tail(t) ELSE t} :
    body # <<>> /\ \A i \in DOMAIN body : IsDigitChar(body[i])

IsNonNegativeInteger(c) == c.k = "int" /\ c.n >= 0

\* C5: in every grid loaded from the items table and in every items table
\* written by Save Items, each Quantity is a non-negative integer; a stored
\* Quantity that is NULL, empty or not a number is loaded as 0.
C5_QuantityNonNegativeInteger ==
  /\ pc_items = "idle" =>
       \A i \in DOMAIN df_items.rows :
         /\ IsNonNegativeInteger(df_items.rows[i]["Quantity"])
         /\ LET stored == Rename(db_items, ItemsMapping).rows[i]["Quantity"]
            IN (IsNa(stored) \/ (stored.k = "str" /\ ~IsNumberText(stored.s)))
                 => df_items.rows[i]["Quantity"] = Int_(0)
  /\ (pc_items = "rerun" /\ msg_items = "Items table successfully saved!") =>
       \A i \in DOMAIN db_items.rows :
         IsNonNegativeInteger(db_items.rows[i]["Quantity"])

\* C6: in the grid the loader returns and in the edited grid, Status is never
\* empty or undefined: a row whose Status is NULL in storage, or None in the
\* editor, has Status "Not Started".
C6_StatusDefaultsToNotStarted ==
  \A s \in Sessions :
    /\ pc[s] = "run" =>
         \A i \in DOMAIN df[s].rows :
           /\ df[s].rows[i]["Status"].k = "str"
           /\ df[s].rows[i]["Status"].s # <<>>
           /\ (i \in DOMAIN db.rows /\ IsNa(Rename(db, TimelineMapping).rows[i]["Status"]))
                => df[s].rows[i]["Status"] = Str(NotStarted)
    /\ pc[s] = "idle" =>
         LET raw == data_editor(df[s], edits[s])
             edited_df_main == StatusCoerce(raw)
         IN \A i \in DOMAIN raw.rows :
              IsNa(raw.rows[i]["Status"]) =>
                edited_df_main.rows[i]["Status"] = Str(NotStarted)

\* display columns of the columns the stored timeline starts with
ExpectedMainColumns == {"Status", "Progress"}

\* C7: loading a stored table that omits an expected column (for example after
\* that column was deleted and the table saved) does not raise, and the grid
\* returned has every expected display column.
C7_LoadToleratesMissingColumn ==
  \A s \in Sessions :
    /\ pc[s] # "error"
    /\ pc[s] \in {"run", "idle"} => ExpectedMainColumns \subseteq df[s].cols

\* session s ends a run by the successful save of a structural command
StructuralSave(s) == SaveSucceeds(s) /\ click[s].button \in StructuralButtons

\* C9 as claimed: the table stored by a successful delete-row, add-column or
\* delete-column is the session's edited grid, unsaved cell edits included,
\* with the one change applied.
C9_PersistsEditedGrid ==
  [][\A s \in Sessions :
       StructuralSave(s) => CommandResult(shown[s], click[s], db')]_vars

\* C9 amended: the table stored is df_main as that run loaded it, with the one
\* change applied; the editor's unsaved edits are not written.
C9_PersistsLoadedGrid ==
  [][\A s \in Sessions :
       StructuralSave(s) => CommandResult(df[s], click[s], db')]_vars

\* a structural command saved while an edit was pending
W_C9 ==
  /\ pc["A"] = "rerun"
  /\ click["A"].button \in StructuralButtons
  /\ msg["A"] = "Timeline data successfully saved!"
  /\ edits["A"] # NoEdits

\* session s ends a run in which a handler called save_timeline_data
SaveAttempt(s) ==
  /\ pc[s] = "run"
  /\ pc'[s] \in {"idle", "rerun"}
  /\ (click[s].button = "Save" \/ ~InvalidCommand(df[s], click[s]))
  /\ click[s].button \in StructuralButtons \cup {"Save"}

SaveErrors == {"Error saving data", "Error saving main timeline"}

ButtonSave(s) == SaveSucceeds(s) /\ click[s].button = "Save"

====
